---- MODULE Spec2Model ----
(***************************************************************************)
(* amap-2drender: the Marker, Line, Grid and Text adapters that bind an    *)
(* AMap custom layer to a 2drender canvas primitive.                       *)
(*                                                                         *)
(* One adapter instance is modelled.  `rev` says which adapter revision of *)
(* the source tree the instance is:                                        *)
(*   "Marker"     src/src/Marker/index.js    7 ..  354                     *)
(*   "MarkerOld"  src/src/Marker/index.js  477 ..  787                     *)
(*   "Line"       src/src/Marker/index.js  913 .. 1337                     *)
(*   "Grid"       src/src/Grid/index.js      8 ..  429                     *)
(*   "Text"       src/src/Text/index.js      8 ..  430                     *)
(* The host map (AMap) and the canvas primitive (2drender) are the         *)
(* environment: the map dispatches events to the listeners registered on   *)
(* it, projects lng/lat to container pixels and runs the plugin callback;  *)
(* the primitive keeps the data it was configured with and answers         *)
(* findByPosition from it.                                                 *)
(***************************************************************************)
EXTENDS Integers, Sequences, FiniteSets, TLC

VARIABLES
  rev,              \* which adapter revision this instance is
  devicePixelRatio, \* window.devicePixelRatio
  dpr,              \* this.dpr
  map,              \* this.map: the host map the constructor was given
  data,             \* this.data
  onClick,          \* this.onClick
  onDoubleClick,    \* this.onDoubleClick
  onMouseOut,       \* this.onMouseOut
  onMouseOver,      \* this.onMouseOver
  hoverItems,       \* this.hoverMarkers / hoverLines / hoverGrids / hoverTexts
  hoverStyleItems,  \* this.hoverStyleMarkers / ...Lines / ...Grids / ...Texts
  size,             \* this.width, this.height and the canvases (backing store,
                    \* CSS size, the scale of the visible canvas's 2D context)
  isDragging,       \* this.isDragging
  gestures,         \* gestures the map has reported started and not yet ended
  customLayer,      \* this.customLayer: "undefined", "attached", "detached"
  previous,         \* this.previousCenter, this.previousZoom
  pluginPending,    \* the AMap.plugin callback has not run yet
  listeners,        \* (event, handler) pairs registered on the map
  cursor,           \* the map's default cursor
  mapView,          \* the map's centre and zoom
  lib,              \* the canvas primitive: configured data, canvas, geometry
  pending,          \* internalRender invocations awaiting the primitive's draw
  frame,            \* the drawing on the visible canvas
  cbLog,            \* user callbacks invoked by the latest operation, in order
  lookupLog,        \* findByPosition calls made by it, in order
  cursorLog,        \* setDefaultCursor calls made by it, in order
  xformLog,         \* coordinateTransformation calls made by it, in order
  libLog,           \* config/render calls it made on the primitive
  layerLog,         \* calls it made on the custom layer
  threw,            \* it ended by throwing
  canvasLog,        \* canvas backing-store fields config() assigned in it
  destroyed,        \* destroy() has been called
  reconfigured,     \* config() has been called since construction
  options,          \* the options last handed to the constructor or config()
  fresh,            \* nothing has happened since the constructor returned
  prevLookup,       \* the lookup result of the latest pointer move; not
                    \* followed after a reconfiguration
  overReported      \* onMouseOver was last called with items, no onMouseOut
                    \* since, and both callbacks have stayed as they were

vars == <<rev, devicePixelRatio, dpr, map, data, onClick, onDoubleClick, onMouseOut, onMouseOver,
          hoverItems, hoverStyleItems, size, isDragging, gestures,
          customLayer, previous, pluginPending, listeners, cursor, mapView,
          lib, pending, frame, cbLog, lookupLog, cursorLog, xformLog, libLog,
          layerLog, threw, canvasLog, destroyed, reconfigured, options, fresh,
          prevLookup, overReported>>

\* ------------------------------------------------------------------ bounds

\* Pointer events arrive at the container pixels <<x, 0>>, x in 0 .. MaxX.
MaxX == 1
\* internalRender invocations that may await the primitive's draw at once.
MaxPending == 1

\* The lowest zoom of the default visible-zoom range, zooms = [3, 18].
MinZoom == 3
\* A fresh canvas element is 300 x 150.
DefaultCanvasWidth == 300
DefaultCanvasHeight == 150

\* window.devicePixelRatio of the device the page is opened on.
Ratios == {2}

Revs == {"Marker", "MarkerOld", "Line", "Grid", "Text"}

Undefined == "undefined"

UndefinedSize == 0 - 1

Has(r, f) == f \in DOMAIN r

Range(s) == {s[i] : i \in DOMAIN s}

\* window.devicePixelRatio over the devices and browser zooms there are; a
\* window without the property has it undefined.
DeviceRatios == {UndefinedSize, 0, 1, 2}

\* getDPR handing on whatever the window has.
getDPRUndefaulted(ratio) == ratio

\* getDPR(): window.devicePixelRatio || 1, for the window's ratio `ratio`.
getDPR(ratio) == IF ratio = UndefinedSize \/ ratio = 0 THEN 1 ELSE ratio

\* ---------------------------------------------------------- revisions

Kind(r) ==
  CASE r \in {"Marker", "MarkerOld"} -> "Marker"
    [] r = "Line" -> "Line"
    [] r = "Grid" -> "Grid"
    [] r = "Text" -> "Text"

\* The (event, handler) pairs the constructor registers with map.on.
RegisteredListeners(r) ==
  IF Kind(r) = "Marker"
  THEN {<<"click", "handleClick">>, <<"dblclick", "handleDoubleClick">>,
        <<"mousemove", "handleMouseMove">>}
  ELSE {<<"click", "handleClick">>, <<"mousemove", "handleMouseMove">>,
        <<"dragend", "handleDragEnd">>, <<"dragstart", "handleDragStart">>,
        <<"touchend", "handleDragEnd">>, <<"touchstart", "handleDragStart">>}

\* The (event, handler) pairs destroy() hands to map.off.
UnregisteredByDestroy(r) ==
  CASE r = "Marker" ->
         {<<"click", "handleClick">>, <<"dblclick", "handleDoubleClick">>,
          <<"mousemove", "handleMouseMove">>}
    [] r = "MarkerOld" -> {}
    [] OTHER ->
         {<<"click", "handleClick">>, <<"dragend", "handleDragEnd">>,
          <<"dragstart", "handleDragStart">>, <<"mousemove", "handleMouseMove">>,
          <<"touchend", "handleDragEnd">>, <<"touchstart", "handleDragStart">>}

\* config() of the Marker revisions and no other resets the two hover sets.
ConfigResetsHover(r) == Kind(r) = "Marker"

\* internalRender is an async function that awaits the primitive's draw.
IsAsync(r) == r \in {"Line", "Grid", "Text"}

\* -------------------------------------------------------------- datasets

ArrayCoord(lng, lat) == [array |-> <<lng, lat>>]
ObjectCoord(lng, lat) == [lng |-> lng, lat |-> lat]

PointA == [id |-> "a", position |-> <<0, 0>>]
PointB == [id |-> "b", location |-> ArrayCoord(1, 0)]
PointC == [id |-> "c", location |-> ObjectCoord(2, 0), position |-> <<1, 0>>]

GridA == [id |-> "a", topLeft |-> ArrayCoord(1, 0), bottomRight |-> ArrayCoord(2, 0)]
GridB == [id |-> "b", topLeft |-> ObjectCoord(2, 0), bottomRight |-> ArrayCoord(2, 0)]

LineA == [id |-> "a", color |-> "red", width |-> 1,
          path |-> <<ArrayCoord(1, 0), ObjectCoord(2, 0)>>]
LineB == [id |-> "b", color |-> "blue", width |-> 1,
          path |-> <<ArrayCoord(2, 0), ArrayCoord(2, 0)>>]

Data1(r) ==
  CASE Kind(r) \in {"Marker", "Text"} -> <<PointA, PointB>>
    [] Kind(r) = "Grid" -> <<GridA, GridB>>
    [] Kind(r) = "Line" -> <<LineA, LineB>>

Data2(r) ==
  CASE Kind(r) \in {"Marker", "Text"} -> <<PointC, PointB>>
    [] Kind(r) = "Grid" -> <<GridB, GridA>>
    [] Kind(r) = "Line" -> <<LineB, LineA>>

\* The option objects handed to the constructor, config() and render().
PropsOf(r) ==
  { [data |-> Data1(r), width |-> 2, height |-> 1, onClick |-> "f",
     onDoubleClick |-> "f", onMouseOut |-> "f", onMouseOver |-> "f"],
    [data |-> Data2(r), height |-> 1, onMouseOver |-> "g"],
    [width |-> 1, onClick |-> "g"] }

Pixels == {<<x, 0>> : x \in 0 .. MaxX}
Centers == {<<1, 0>>, <<2, 0>>}
Zooms == {MinZoom, MinZoom + 1}

\* ------------------------------------------------------------ host map

\* map.lngLatToContainer: the container pixel of a lng/lat under the map's
\* current centre and zoom; the centre sits at container pixel <<1, 0>>.
lngLatToContainer(view, lng, lat) ==
  <<(lng - view.center[1]) * 2 ^ (view.zoom - MinZoom) + 1,
    (lat - view.center[2]) * 2 ^ (view.zoom - MinZoom)>>

coordinateTransformation(view, coordinates) ==
  LET lng == IF Has(coordinates, "array") THEN coordinates.array[1]
             ELSE coordinates.lng
      lat == IF Has(coordinates, "array") THEN coordinates.array[2]
             ELSE coordinates.lat
  IN lngLatToContainer(view, lng, lat)

\* ------------------------------------------------- canvas primitive (2drender)

WithField(r, f, v) == [k \in DOMAIN r \cup {f} |-> IF k = f THEN v ELSE r[k]]

\* What the primitive draws and hit-tests for one configured item: a point for
\* Marker and Text, a rectangle for Grid, the snapshot's pixel path for Line.
Geometry(r, view, item) ==
  CASE Kind(r) \in {"Marker", "Text"} -> [position |-> item.position]
    [] Kind(r) = "Grid" ->
         [origin |-> item.origin, width |-> item.width, height |-> item.height]
    [] Kind(r) = "Line" ->
         [path |-> [k \in 1 .. Len(item.path) |->
                      coordinateTransformation(view, item.path[k])]]

Between(a, b, x) == (a <= x /\ x <= b) \/ (b <= x /\ x <= a)

OnSegment(p, u, v) ==
  /\ Between(u[1], v[1], p[1])
  /\ Between(u[2], v[2], p[2])
  /\ (v[1] - u[1]) * (p[2] - u[2]) = (v[2] - u[2]) * (p[1] - u[1])

Hit(g, p) ==
  CASE Has(g, "position") -> g.position = p
    [] Has(g, "origin") ->
         /\ Between(g.origin[1], g.origin[1] + g.width, p[1])
         /\ Between(g.origin[2], g.origin[2] + g.height, p[2])
    [] Has(g, "path") ->
         \E k \in 1 .. Len(g.path) - 1 : OnSegment(p, g.path[k], g.path[k + 1])

RECURSIVE HitsFrom(_, _, _)
HitsFrom(l, i, p) ==
  IF i = 0 THEN <<>>
  ELSE (IF Hit(l.snap[i], p) THEN <<l.data[i]>> ELSE <<>>) \o HitsFrom(l, i - 1, p)

RECURSIVE HitsUpTo(_, _, _)
HitsUpTo(l, i, p) ==
  IF i = 0 THEN <<>>
  ELSE HitsUpTo(l, i - 1, p) \o (IF Hit(l.snap[i], p) THEN <<l.data[i]>> ELSE <<>>)

\* findByPosition answering in the order of the data array.
findByPositionInDataOrder(l, p) == HitsUpTo(l, Len(l.data), p)

\* findByPosition: the configured items under the pixel; an item later in the
\* data array comes earlier in the result.
findByPosition(l, p) == HitsFrom(l, Len(l.data), p)

NoLib == [data |-> <<>>, snap |-> <<>>,
          width |-> UndefinedSize, height |-> UndefinedSize, dpr |-> UndefinedSize]

\* --------------------------------------------------------- render transforms

TransformCall(i, coordinates) == [item |-> i, coordinates |-> coordinates]

\* PointItem projecting the location whenever there is one.
PointItemProjecting(view, i, marker) ==
  IF Has(marker, "location")
  THEN [out |-> WithField(marker, "position",
                          coordinateTransformation(view, marker.location)),
        calls |-> <<TransformCall(i, marker.location)>>]
  ELSE [out |-> marker, calls |-> <<>>]

\* Marker and Text: the record handed to the primitive for data[i], and the
\* coordinateTransformation calls made to build it.
PointItem(view, i, marker) ==
  IF Has(marker, "position")
  THEN [out |-> marker, calls |-> <<>>]
  ELSE [out |-> WithField(marker, "position",
                          coordinateTransformation(view, marker.location)),
        calls |-> <<TransformCall(i, marker.location)>>]

\* Grid: bottomRight is projected first, then topLeft.
GridItem(view, i, grid) ==
  LET p1 == coordinateTransformation(view, grid.bottomRight)
      p0 == coordinateTransformation(view, grid.topLeft)
  IN [out |-> WithField(WithField(WithField(grid,
                "height", p1[2] - p0[2]), "origin", p0), "width", p1[1] - p0[1]),
      calls |-> <<TransformCall(i, grid.bottomRight), TransformCall(i, grid.topLeft)>>]

\* Line: the dataset is handed over as it is; the primitive applies
\* getSnapshotBeforeRender, which projects every point of the path.
LineItem(view, i, line) ==
  [out |-> line,
   calls |-> [k \in 1 .. Len(line.path) |-> TransformCall(i, line.path[k])]]

RenderItem(r, view, i, item) ==
  CASE Kind(r) \in {"Marker", "Text"} -> PointItem(view, i, item)
    [] Kind(r) = "Grid" -> GridItem(view, i, item)
    [] Kind(r) = "Line" -> LineItem(view, i, item)

RECURSIVE RenderCalls(_, _, _, _)
RenderCalls(r, view, d, i) ==
  IF i > Len(d) THEN <<>>
  ELSE RenderItem(r, view, i, d[i]).calls \o RenderCalls(r, view, d, i + 1)

\* RenderData handing the items over last first.
RenderDataReversed(r, view, d) ==
  [i \in 1 .. Len(d) |->
     RenderItem(r, view, Len(d) + 1 - i, d[Len(d) + 1 - i]).out]

RenderData(r, view, d) == [i \in 1 .. Len(d) |-> RenderItem(r, view, i, d[i]).out]

\* Configure with dpr read from the window at the time of the call.
ConfigureRereading(r, view, d, sz, ratio) ==
  LET handed == RenderData(r, view, d)
  IN [data |-> handed,
      snap |-> [i \in 1 .. Len(handed) |-> Geometry(r, view, handed[i])],
      width |-> IF IsAsync(r) THEN sz.width ELSE UndefinedSize,
      height |-> IF IsAsync(r) THEN sz.height ELSE UndefinedSize,
      dpr |-> IF IsAsync(r) THEN getDPR(devicePixelRatio) ELSE UndefinedSize]

\* The primitive after config({ canvas | ctx, data, dpr, height, width }).
Configure(r, view, d, sz, ratio) ==
  LET handed == RenderData(r, view, d)
  IN [data |-> handed,
      snap |-> [i \in 1 .. Len(handed) |-> Geometry(r, view, handed[i])],
      width |-> IF IsAsync(r) THEN sz.width ELSE UndefinedSize,
      height |-> IF IsAsync(r) THEN sz.height ELSE UndefinedSize,
      dpr |-> IF IsAsync(r) THEN ratio ELSE UndefinedSize]

\* ------------------------------------------------------------------ config

\* A destructured option: the supplied value, or the default when omitted.
Configured(props, name, default) ==
  IF Has(props, name) THEN props[name] ELSE default

\* The size bookkeeping of config(): Marker compares against and assigns the
\* canvas backing store scaled by dpr; MarkerOld compares against this.height /
\* this.width, which it never stores; Line, Grid and Text store this.height /
\* this.width and the CSS size and leave the backing store to the primitive.
\* Assigning a dimension of the canvas resets the transform of its context.
ConfigSize(r, ratio, sz, w, h) ==
  CASE r = "Marker" ->
         [sz EXCEPT
            !.canvasH = IF h * ratio # sz.canvasH THEN h * ratio ELSE @,
            !.styleH = IF h * ratio # sz.canvasH THEN h ELSE @,
            !.canvasW = IF w * ratio # sz.canvasW THEN w * ratio ELSE @,
            !.styleW = IF w * ratio # sz.canvasW THEN w ELSE @,
            !.scale = IF h * ratio # sz.canvasH \/ w * ratio # sz.canvasW
                      THEN 1 ELSE @]
    [] r = "MarkerOld" ->
         [sz EXCEPT
            !.canvasH = IF h # sz.height THEN h ELSE @,
            !.canvasW = IF w # sz.width THEN w ELSE @,
            !.scale = IF h # sz.height \/ w # sz.width THEN 1 ELSE @]
    [] OTHER ->
         [sz EXCEPT
            !.height = IF h # sz.height THEN h ELSE @,
            !.styleH = IF h # sz.height THEN h ELSE @,
            !.width = IF w # sz.width THEN w ELSE @,
            !.styleW = IF w # sz.width THEN w ELSE @]

\* The canvas backing-store fields config() assigns: Marker those whose scaled
\* request differs from the canvas; MarkerOld those whose request differs from
\* this.height / this.width; Line, Grid and Text none.
ConfigWrites(r, ratio, sz, w, h) ==
  CASE r = "Marker" ->
         {f \in {"height"} : h * ratio # sz.canvasH}
           \cup {f \in {"width"} : w * ratio # sz.canvasW}
    [] r = "MarkerOld" ->
         {f \in {"height"} : h # sz.height} \cup {f \in {"width"} : w # sz.width}
    [] OTHER -> {}

FreshSize == [width |-> UndefinedSize, height |-> UndefinedSize,
              canvasW |-> DefaultCanvasWidth, canvasH |-> DefaultCanvasHeight,
              styleW |-> UndefinedSize, styleH |-> UndefinedSize,
              daemonW |-> DefaultCanvasWidth, daemonH |-> DefaultCanvasHeight,
              scale |-> 1]

\* Scaled without the reset of the canvas: each ctx.scale(dpr, dpr) multiplies
\* the scale the context already has.
ScaledCumulatively(r, sz, ratio) ==
  CASE r = "Marker" -> [sz EXCEPT !.scale = @ * ratio]
    [] r = "MarkerOld" -> sz
    [] OTHER -> sz

\* The head of the synchronous internalRender: `this.canvas.width =
\* this.canvas.width` resets the context's transform, and Marker then calls
\* ctx.scale(this.dpr, this.dpr); MarkerOld does not scale.
Scaled(r, sz, ratio) ==
  CASE r = "Marker" -> [sz EXCEPT !.scale = ratio]
    [] r = "MarkerOld" -> [sz EXCEPT !.scale = 1]
    [] OTHER -> sz

\* config(props) keeping what props omits.
configMerging(r, props) ==
  [data |-> Configured(props, "data", data),
   onClick |-> Configured(props, "onClick", onClick),
   onDoubleClick |-> IF Kind(r) = "Marker"
                     THEN Configured(props, "onDoubleClick", onDoubleClick)
                     ELSE onDoubleClick,
   onMouseOut |-> Configured(props, "onMouseOut", onMouseOut),
   onMouseOver |-> Configured(props, "onMouseOver", onMouseOver),
   hoverItems |-> IF ConfigResetsHover(r) THEN <<>> ELSE hoverItems,
   hoverStyleItems |-> IF ConfigResetsHover(r) THEN <<>> ELSE hoverStyleItems,
   size |-> ConfigSize(r, dpr, size, Configured(props, "width", 0),
                       Configured(props, "height", 0))]

\* The fields config(props) assigns, as a record of their new values.
config(r, props) ==
  [data |-> Configured(props, "data", <<>>),
   onClick |-> Configured(props, "onClick", Undefined),
   onDoubleClick |-> IF Kind(r) = "Marker"
                     THEN Configured(props, "onDoubleClick", Undefined)
                     ELSE onDoubleClick,
   onMouseOut |-> Configured(props, "onMouseOut", Undefined),
   onMouseOver |-> Configured(props, "onMouseOver", Undefined),
   hoverItems |-> IF ConfigResetsHover(r) THEN <<>> ELSE hoverItems,
   hoverStyleItems |-> IF ConfigResetsHover(r) THEN <<>> ELSE hoverStyleItems,
   size |-> ConfigSize(r, dpr, size, Configured(props, "width", 0),
                       Configured(props, "height", 0))]

\* ---------------------------------------------------------- event handlers

IsFunction(f) == f # Undefined

Lookup(by, pixel) == [by |-> by, pixel |-> pixel]

Call(name, fn, event, items) ==
  [cb |-> name, fn |-> fn, event |-> event, items |-> items]

\* handleClick calling back whatever the lookup gives.
ClickCallsUnchecked(name, fn, event) ==
  IF IsFunction(fn)
  THEN [lookups |-> <<Lookup(IF name = "onClick" THEN "handleClick"
                             ELSE "handleDoubleClick", event.pixel)>>,
        calls |-> <<Call(name, fn, event, findByPosition(lib, event.pixel))>>]
  ELSE [lookups |-> <<>>, calls |-> <<>>]

\* handleClick / handleDoubleClick: look up only if the callback is set, call
\* it only if something was hit.
ClickCalls(name, fn, event) ==
  IF IsFunction(fn)
  THEN LET clicked == findByPosition(lib, event.pixel)
       IN [lookups |-> <<Lookup(IF name = "onClick" THEN "handleClick"
                                ELSE "handleDoubleClick", event.pixel)>>,
           calls |-> IF Len(clicked) # 0
                     THEN <<Call(name, fn, event, clicked)>> ELSE <<>>]
  ELSE [lookups |-> <<>>, calls |-> <<>>]

\* HoverCalls with the two calls of the same-size branch in the other order.
HoverCallsOverFirst(event, items, hover, over, out) ==
  IF Len(items) > Len(hover)
  THEN IF IsFunction(over) THEN <<Call("onMouseOver", over, event, items)>> ELSE <<>>
  ELSE IF Len(items) < Len(hover)
  THEN IF IsFunction(out) THEN <<Call("onMouseOut", out, event, items)>> ELSE <<>>
  ELSE IF items # hover
  THEN (IF IsFunction(over) THEN <<Call("onMouseOver", over, event, items)>> ELSE <<>>)
       \o (IF IsFunction(out) THEN <<Call("onMouseOut", out, event, items)>> ELSE <<>>)
  ELSE <<>>

\* The callbacks handleMouseHover fires for lookup result `items` against the
\* stored hover set `hover`.
HoverCalls(event, items, hover, over, out) ==
  IF Len(items) > Len(hover)
  THEN IF IsFunction(over) THEN <<Call("onMouseOver", over, event, items)>> ELSE <<>>
  ELSE IF Len(items) < Len(hover)
  THEN IF IsFunction(out) THEN <<Call("onMouseOut", out, event, items)>> ELSE <<>>
  ELSE IF items # hover
  THEN (IF IsFunction(out) THEN <<Call("onMouseOut", out, event, items)>> ELSE <<>>)
       \o (IF IsFunction(over) THEN <<Call("onMouseOver", over, event, items)>> ELSE <<>>)
  ELSE <<>>

\* handleMouseHover without the final store of the hover set.
handleMouseHoverKeepingSet(event) ==
  IF IsFunction(onMouseOver) \/ IsFunction(onMouseOut)
  THEN LET items == findByPosition(lib, event.pixel)
       IN [lookups |-> <<Lookup("handleMouseHover", event.pixel)>>,
           calls |-> HoverCalls(event, items, hoverItems, onMouseOver, onMouseOut),
           hover |-> hoverItems]
  ELSE [lookups |-> <<>>, calls |-> <<>>, hover |-> hoverItems]

\* handleMouseHover looking up and storing whatever is registered.
handleMouseHoverUnguarded(event) ==
  LET items == findByPosition(lib, event.pixel)
  IN [lookups |-> <<Lookup("handleMouseHover", event.pixel)>>,
      calls |-> HoverCalls(event, items, hoverItems, onMouseOver, onMouseOut),
      hover |-> items]

handleMouseHover(event) ==
  IF IsFunction(onMouseOver) \/ IsFunction(onMouseOut)
  THEN LET items == findByPosition(lib, event.pixel)
       IN [lookups |-> <<Lookup("handleMouseHover", event.pixel)>>,
           calls |-> HoverCalls(event, items, hoverItems, onMouseOver, onMouseOut),
           hover |-> items]
  ELSE [lookups |-> <<>>, calls |-> <<>>, hover |-> hoverItems]

\* The setDefaultCursor calls of handleMouseHoverStyle: 'pointer' on entering,
\* no argument (the map's default) on leaving.
CursorCalls(hoverStyle, items) ==
  (IF Len(hoverStyle) = 0 /\ Len(items) > 0 THEN <<"pointer">> ELSE <<>>)
  \o (IF Len(hoverStyle) > 0 /\ Len(items) = 0 THEN <<"default">> ELSE <<>>)

\* handleMouseHoverStyle looking up and setting the cursor whatever is
\* registered.
handleMouseHoverStyleUnwatched(r, event) ==
  LET items == findByPosition(lib, event.pixel)
  IN [threw |-> r = "MarkerOld",
      lookups |-> <<Lookup("handleMouseHoverStyle", event.pixel)>>,
      cursorCalls |-> CursorCalls(hoverStyleItems, items),
      hoverStyle |-> items]

\* Text does not look at onDoubleClick; the others do.  MarkerOld starts with
\* `const { map } = this.props`, and this.props is never assigned.  Text ends
\* with `this.hoverStyleTtexts = texts`: hoverStyleTexts keeps the value the
\* constructor gave it, and hoverStyleTtexts, which nothing reads, is not kept
\* in the model.
handleMouseHoverStyle(r, event) ==
  LET watched == \/ IsFunction(onClick)
                 \/ (r # "Text" /\ IsFunction(onDoubleClick))
                 \/ IsFunction(onMouseOver)
                 \/ IsFunction(onMouseOut)
      items == findByPosition(lib, event.pixel)
      idle == [threw |-> FALSE, lookups |-> <<>>, cursorCalls |-> <<>>,
               hoverStyle |-> hoverStyleItems]
  IN CASE r = "MarkerOld" -> [idle EXCEPT !.threw = TRUE]
       [] r # "MarkerOld" /\ ~watched -> idle
       [] r = "Text" /\ watched ->
            [idle EXCEPT !.lookups = <<Lookup("handleMouseHoverStyle", event.pixel)>>,
                         !.cursorCalls = CursorCalls(hoverStyleItems, items)]
       [] OTHER ->
            [idle EXCEPT !.lookups = <<Lookup("handleMouseHoverStyle", event.pixel)>>,
                         !.cursorCalls = CursorCalls(hoverStyleItems, items),
                         !.hoverStyle = items]

\* ------------------------------------------------------------ the canvas

\* The drawing on a canvas: the geometry painted since the canvas was last
\* cleared and how far moveCanvas has shifted it (in backing-store pixels)
\* since.  A cleared canvas and one on which an empty dataset was drawn show
\* the same.
BlankFrame == [snap |-> <<>>, shift |-> <<0, 0>>]

\* The drawing the primitive l leaves on a cleared canvas.
Drawn(l) == [snap |-> l.snap, shift |-> <<0, 0>>]

\* Delta measured from the container's origin instead of the memorised centre.
DeltaFromOrigin ==
  lngLatToContainer(mapView, mapView.center[1], mapView.center[2])

\* The pan since the memorised centre, in container pixels, as internalRender
\* computes it: the position of the map's centre minus that of the memorised
\* centre, both under the map's current view.
Delta ==
  LET next == lngLatToContainer(mapView, mapView.center[1], mapView.center[2])
      prev == lngLatToContainer(mapView, previous.center[1], previous.center[2])
  IN <<next[1] - prev[1], next[2] - prev[2]>>

\* moveCanvas on the visible canvas by minus the pan: Line passes dpr and the
\* shift is scaled by it, Grid and Text pass no dpr and the shift is not.
Moved(f) ==
  LET scale == IF rev = "Line" THEN dpr ELSE 1
  IN IF f.snap # <<>>
     THEN [f EXCEPT !.shift = <<@[1] - Delta[1] * scale, @[2] - Delta[2] * scale>>]
     ELSE f

\* --------------------------------------------------------------- the state

adapter == <<data, onClick, onDoubleClick, onMouseOut, onMouseOver, size>>
hovers == <<hoverItems, hoverStyleItems>>
rendering == <<lib, pending, previous, frame>>
hostMap == <<listeners, cursor, mapView, pluginPending, customLayer>>
fixed == <<rev, dpr, map>>

NoLogs ==
  /\ cbLog' = <<>>
  /\ lookupLog' = <<>>
  /\ cursorLog' = <<>>
  /\ xformLog' = <<>>
  /\ libLog' = <<>>
  /\ layerLog' = <<>>
  /\ threw' = FALSE
  /\ fresh' = FALSE
  /\ canvasLog' = {}

\* The logs neither config() nor internalRender() writes.
RenderLogs ==
  /\ cbLog' = <<>>
  /\ lookupLog' = <<>>
  /\ cursorLog' = <<>>
  /\ layerLog' = <<>>
  /\ threw' = FALSE
  /\ fresh' = FALSE

\* The memorised zoom starting at the map's lowest zoom instead of undefined.
NoPreviousAtMinZoom == [center |-> <<>>, zoom |-> MinZoom]

\* this.previousCenter and this.previousZoom before any render has memorised
\* them: the constructor assigns neither.
NoPrevious == [center |-> <<>>, zoom |-> UndefinedSize]

\* The state the constructor leaves in a window whose devicePixelRatio is in
\* `ratios`: this.dpr read, listeners registered, config(props) applied to a
\* fresh canvas, the plugin callback requested and not yet run.
Constructed(ratios) ==
  \E r \in Revs : \E props \in PropsOf(r) : \E env \in ratios :
   LET ratio == IF r = "MarkerOld" THEN UndefinedSize ELSE getDPR(env) IN
    /\ rev = r
    /\ devicePixelRatio = env
    /\ dpr = ratio
    /\ map = "map"
    /\ data = Configured(props, "data", <<>>)
    /\ onClick = Configured(props, "onClick", Undefined)
    /\ onDoubleClick = IF Kind(r) = "Marker"
                       THEN Configured(props, "onDoubleClick", Undefined)
                       ELSE Undefined
    /\ onMouseOut = Configured(props, "onMouseOut", Undefined)
    /\ onMouseOver = Configured(props, "onMouseOver", Undefined)
    /\ hoverItems = <<>>
    /\ hoverStyleItems = <<>>
    /\ size = ConfigSize(r, ratio, FreshSize, Configured(props, "width", 0),
                         Configured(props, "height", 0))
    /\ isDragging = FALSE
    /\ gestures = {}
    /\ customLayer = "undefined"
    /\ previous = NoPrevious
    /\ pluginPending = TRUE
    /\ listeners = RegisteredListeners(r)
    /\ cursor = "default"
    /\ mapView \in [center : Centers, zoom : Zooms]
    /\ lib = NoLib
    /\ pending = <<>>
    /\ frame = BlankFrame
    /\ cbLog = <<>>
    /\ lookupLog = <<>>
    /\ cursorLog = <<>>
    /\ xformLog = <<>>
    /\ libLog = <<>>
    /\ layerLog = <<>>
    /\ threw = FALSE
    /\ fresh = TRUE
    /\ canvasLog = ConfigWrites(r, ratio, FreshSize, Configured(props, "width", 0),
                              Configured(props, "height", 0))
    /\ destroyed = FALSE
    /\ reconfigured = FALSE
    /\ options = props
    /\ prevLookup = <<>>
    /\ overReported = FALSE

Init == Constructed(Ratios)

\* ----------------------------------------------------------------- actions

\* The AMap.plugin('AMap.CustomLayer', ...) callback: creates the custom layer
\* on the map and sets its render slot.
PluginCallback ==
  /\ pluginPending
  /\ pluginPending' = FALSE
  /\ customLayer' = "attached"
  /\ NoLogs
  /\ UNCHANGED <<fixed, overReported, devicePixelRatio, adapter, hovers, rendering, isDragging, gestures,
                 listeners, cursor, mapView, destroyed, reconfigured, options,
                 prevLookup>>

\* destroy(): detach the layer if there is one, then map.off what the
\* revision unregisters.
Destroy ==
  /\ ~destroyed
  /\ customLayer' = IF customLayer # "undefined" THEN "detached" ELSE customLayer
  /\ layerLog' = IF customLayer # "undefined" THEN <<"setMap(null)">> ELSE <<>>
  /\ listeners' = listeners \ UnregisteredByDestroy(rev)
  /\ destroyed' = TRUE
  /\ cbLog' = <<>>
  /\ lookupLog' = <<>>
  /\ cursorLog' = <<>>
  /\ xformLog' = <<>>
  /\ libLog' = <<>>
  /\ threw' = FALSE
  /\ fresh' = FALSE
  /\ canvasLog' = {}
  /\ UNCHANGED <<fixed, overReported, devicePixelRatio, adapter, hovers, rendering, isDragging, gestures, cursor, mapView,
                 pluginPending, reconfigured, options, prevLookup>>

ApplyConfig(props) ==
  LET c == config(rev, props)
  IN /\ data' = c.data
     /\ onClick' = c.onClick
     /\ onDoubleClick' = c.onDoubleClick
     /\ onMouseOut' = c.onMouseOut
     /\ onMouseOver' = c.onMouseOver
     /\ hoverItems' = c.hoverItems
     /\ hoverStyleItems' = c.hoverStyleItems
     /\ reconfigured' = TRUE
     /\ options' = props
     /\ prevLookup' = <<>>
     /\ overReported' = (/\ overReported
                         /\ c.onMouseOver = onMouseOver
                         /\ c.onMouseOut = onMouseOut)

\* Assigning a canvas's width or height clears it.
Resized(f, written) == IF written # {} THEN BlankFrame ELSE f

\* config(props), called by the application.
Config(props) ==
  /\ ~destroyed
  /\ ApplyConfig(props)
  /\ size' = config(rev, props).size
  /\ canvasLog' = ConfigWrites(rev, dpr, size, Configured(props, "width", 0),
                              Configured(props, "height", 0))
  /\ RenderLogs
  /\ xformLog' = <<>>
  /\ libLog' = <<>>
  /\ frame' = Resized(frame, canvasLog')
  /\ UNCHANGED <<fixed, devicePixelRatio, lib, pending, previous, isDragging, gestures, hostMap,
                 destroyed>>

\* A call on the primitive (config, render) or on a canvas (moveCanvas,
\* drawImage), with the canvas it is about.
LibCall(call, target) == [call |-> call, target |-> target]

\* Whether internalRender, entered now, goes on to configure the primitive.
Draws == ~(IsAsync(rev) /\ isDragging)

\* Target handing over the daemon canvas whatever the zoom.
TargetDaemon ==
  IF ~Draws THEN "none"
  ELSE IF ~IsAsync(rev) THEN "ctx"
  ELSE "daemon"

\* What internalRender, entered now, hands to the primitive to draw on.
Target ==
  IF ~Draws THEN "none"
  ELSE IF ~IsAsync(rev) THEN "ctx"
  ELSE IF mapView.zoom = previous.zoom THEN "daemon"
  ELSE "visible"

\* The part of internalRender after `await`: copy the daemon canvas to the
\* visible one if the primitive drew there, then memorise the map's centre
\* and zoom as they are now.
Blit(sz, daemon) ==
  IF daemon THEN [sz EXCEPT !.canvasW = sz.daemonW, !.canvasH = sz.daemonH] ELSE sz

Memorised == [center |-> mapView.center, zoom |-> mapView.zoom]

\* internalRender() over dataset d and sizes sz (those just stored by config()
\* when render(props) is the caller).  Marker and MarkerOld hand over the 2D
\* context and return when the primitive's render() returns.  Line, Grid and
\* Text return at once while dragging; otherwise they hand over the daemon
\* canvas when the zoom equals the memorised one and the visible canvas when it
\* does not, shifting the visible canvas with moveCanvas in the first case,
\* and await the primitive's render().  With `eager` the awaited
\* draw is already complete and the rest of internalRender runs before
\* anything else does; without it the rest is RenderDone, a later step, and
\* the suspended call is kept in `pending` with what it holds: whether it
\* chose the daemon canvas (nextZoom === previousZoom), the centre and zoom it
\* read, and the drawing it asked the primitive for.
internalRender(d, sz, eager) ==
  /\ xformLog' = IF Draws THEN RenderCalls(rev, mapView, d, 1) ELSE <<>>
  /\ libLog' = IF Draws
               THEN (IF Target = "daemon"
                     THEN <<LibCall("moveCanvas", "visible")>> ELSE <<>>)
                    \o <<LibCall("config", Target), LibCall("render", Target)>>
                    \o (IF Target = "daemon" /\ eager
                        THEN <<LibCall("drawImage", "visible")>> ELSE <<>>)
               ELSE <<>>
  /\ lib' = IF Draws THEN Configure(rev, mapView, d, sz, dpr) ELSE lib
  /\ IF Draws /\ IsAsync(rev) /\ ~eager
     THEN /\ Len(pending) < MaxPending
          /\ pending' = Append(pending, [daemon |-> Target = "daemon",
                                          next |-> Memorised,
                                          drawing |-> Drawn(lib')])
          /\ previous' = previous
          /\ size' = sz
          /\ frame' = IF Target = "daemon" THEN Moved(frame) ELSE frame
     ELSE /\ pending' = pending
          /\ previous' = IF Draws /\ IsAsync(rev) THEN Memorised ELSE previous
          /\ size' = IF Draws /\ IsAsync(rev) THEN Blit(sz, Target = "daemon")
                     ELSE Scaled(rev, sz, dpr)
          /\ frame' = IF Draws THEN Drawn(lib') ELSE frame

\* render(props) with props neither null nor undefined: config(props), then
\* internalRender().  MarkerOld has no such entry: its render() takes nothing.
RenderOp(props, eager) ==
  /\ rev # "MarkerOld"
  /\ ~destroyed
  /\ ApplyConfig(props)
  /\ internalRender(config(rev, props).data, config(rev, props).size, eager)
  /\ canvasLog' = ConfigWrites(rev, dpr, size, Configured(props, "width", 0),
                              Configured(props, "height", 0))
  /\ RenderLogs
  /\ UNCHANGED <<fixed, devicePixelRatio, isDragging, gestures, hostMap, destroyed>>

\* render() storing the list it handed to the primitive as the dataset.
RefreshOpWritingBack(eager) ==
  /\ ~destroyed
  /\ internalRender(data, size, eager)
  /\ canvasLog' = {}
  /\ RenderLogs
  /\ data' = IF Draws THEN RenderData(rev, mapView, data) ELSE data
  /\ UNCHANGED <<fixed, overReported, devicePixelRatio, onClick, onDoubleClick, onMouseOut, onMouseOver,
                 hovers, isDragging, gestures, hostMap, destroyed, reconfigured, options,
                 prevLookup>>

\* render() without options, called by the application.
RefreshOp(eager) ==
  /\ ~destroyed
  /\ internalRender(data, size, eager)
  /\ canvasLog' = {}
  /\ RenderLogs
  /\ UNCHANGED <<fixed, overReported, devicePixelRatio, data, onClick, onDoubleClick, onMouseOut, onMouseOver,
                 hovers, isDragging, gestures, hostMap, destroyed, reconfigured, options,
                 prevLookup>>

\* customLayer.render forgetting the hover sets as config() of Marker does.
LayerRenderOpResettingHover(eager) ==
  /\ customLayer = "attached"
  /\ internalRender(data, size, eager)
  /\ canvasLog' = {}
  /\ RenderLogs
  /\ hoverItems' = <<>>
  /\ hoverStyleItems' = <<>>
  /\ UNCHANGED <<fixed, overReported, devicePixelRatio, data, onClick, onDoubleClick, onMouseOut, onMouseOver,
                 isDragging, gestures, hostMap, destroyed, reconfigured, options,
                 prevLookup>>

\* The map rendering the layer whether or not the plugin callback has made it.
LayerRenderOpUnattached(eager) ==
  /\ customLayer # "detached"
  /\ internalRender(data, size, eager)
  /\ canvasLog' = {}
  /\ RenderLogs
  /\ UNCHANGED <<fixed, overReported, devicePixelRatio, data, onClick, onDoubleClick, onMouseOut, onMouseOver,
                 hovers, isDragging, gestures, hostMap, destroyed, reconfigured,
                 options, prevLookup>>

\* The map calls customLayer.render, the slot the plugin callback filled.
LayerRenderOp(eager) ==
  /\ customLayer = "attached"
  /\ internalRender(data, size, eager)
  /\ canvasLog' = {}
  /\ RenderLogs
  /\ UNCHANGED <<fixed, overReported, devicePixelRatio, data, onClick, onDoubleClick, onMouseOut, onMouseOver,
                 hovers, isDragging, gestures, hostMap, destroyed, reconfigured, options,
                 prevLookup>>

Render(props) == RenderOp(props, FALSE)
Refresh == RefreshOp(FALSE)
LayerRender == LayerRenderOp(FALSE)

RenderDrawn(props) == RenderOp(props, TRUE)
RefreshDrawn == RefreshOp(TRUE)
LayerRenderDrawn == LayerRenderOp(TRUE)

Remove(s, i) == [k \in 1 .. Len(s) - 1 |-> IF k < i THEN s[k] ELSE s[k + 1]]

\* RenderDone giving up, when the map is being dragged, without the copy of
\* the daemon canvas and without memorising.
RenderDoneCancelledByDrag(i) ==
  /\ i \in 1 .. Len(pending)
  /\ pending' = Remove(pending, i)
  /\ size' = IF isDragging THEN size ELSE Blit(size, pending[i].daemon)
  /\ frame' = IF isDragging THEN frame ELSE pending[i].drawing
  /\ previous' = IF isDragging THEN previous ELSE Memorised
  /\ libLog' = IF pending[i].daemon /\ ~isDragging
               THEN <<LibCall("drawImage", "visible")>> ELSE <<>>
  /\ cbLog' = <<>>
  /\ lookupLog' = <<>>
  /\ cursorLog' = <<>>
  /\ xformLog' = <<>>
  /\ layerLog' = <<>>
  /\ threw' = FALSE
  /\ fresh' = FALSE
  /\ canvasLog' = {}
  /\ UNCHANGED <<fixed, overReported, devicePixelRatio, data, onClick, onDoubleClick, onMouseOut,
                 onMouseOver, hovers, lib, isDragging, gestures, hostMap, destroyed,
                 reconfigured, options, prevLookup>>

\* The primitive's draw completes and the awaiting internalRender resumes: it
\* copies the daemon canvas to the visible one if that is where the draw was
\* requested, and memorises the map's centre and zoom as they are now.  The
\* draw leaves on its canvas what it was requested with.
RenderDone(i) ==
  /\ i \in 1 .. Len(pending)
  /\ pending' = Remove(pending, i)
  /\ size' = Blit(size, pending[i].daemon)
  /\ frame' = pending[i].drawing
  /\ previous' = Memorised
  /\ libLog' = IF pending[i].daemon
               THEN <<LibCall("drawImage", "visible")>> ELSE <<>>
  /\ cbLog' = <<>>
  /\ lookupLog' = <<>>
  /\ cursorLog' = <<>>
  /\ xformLog' = <<>>
  /\ layerLog' = <<>>
  /\ threw' = FALSE
  /\ fresh' = FALSE
  /\ canvasLog' = {}
  /\ UNCHANGED <<fixed, overReported, devicePixelRatio, data, onClick, onDoubleClick, onMouseOut, onMouseOver,
                 hovers, lib, isDragging, gestures, hostMap, destroyed,
                 reconfigured, options,
                 prevLookup>>

Event(type, pixel) == [type |-> type, pixel |-> pixel]

\* The map dispatches 'click' to handleClick.
MapClick(p) ==
  /\ <<"click", "handleClick">> \in listeners
  /\ LET r == ClickCalls("onClick", onClick, Event("click", p))
     IN /\ cbLog' = r.calls
        /\ lookupLog' = r.lookups
  /\ cursorLog' = <<>>
  /\ xformLog' = <<>>
  /\ libLog' = <<>>
  /\ layerLog' = <<>>
  /\ threw' = FALSE
  /\ fresh' = FALSE
  /\ canvasLog' = {}
  /\ UNCHANGED <<fixed, overReported, devicePixelRatio, adapter, hovers, rendering, isDragging, gestures, hostMap,
                 destroyed, reconfigured, options, prevLookup>>

\* The map reports a double-click: it dispatches 'dblclick' to
\* handleDoubleClick where that is registered, and to nothing of the adapter
\* where it is not.
MapDoubleClick(p) ==
  /\ LET r == ClickCalls("onDoubleClick", onDoubleClick, Event("dblclick", p))
         heard == <<"dblclick", "handleDoubleClick">> \in listeners
     IN /\ cbLog' = IF heard THEN r.calls ELSE <<>>
        /\ lookupLog' = IF heard THEN r.lookups ELSE <<>>
  /\ cursorLog' = <<>>
  /\ xformLog' = <<>>
  /\ libLog' = <<>>
  /\ layerLog' = <<>>
  /\ threw' = FALSE
  /\ fresh' = FALSE
  /\ canvasLog' = {}
  /\ UNCHANGED <<fixed, overReported, devicePixelRatio, adapter, hovers, rendering, isDragging, gestures, hostMap,
                 destroyed, reconfigured, options, prevLookup>>

\* Whether an onMouseOut is owed after the hover callbacks `calls` of a
\* pointer move: the last of them was onMouseOver with items, both callbacks
\* being registered; as before the move if it called nothing.
Owed(calls, before) ==
  IF calls = <<>> THEN before
  ELSE /\ calls[Len(calls)].cb = "onMouseOver"
       /\ calls[Len(calls)].items # <<>>
       /\ IsFunction(onMouseOver)
       /\ IsFunction(onMouseOut)

\* The map dispatches 'mousemove' to handleMouseMove: handleMouseHover, then
\* handleMouseHoverStyle.
MapMouseMove(p) ==
  /\ <<"mousemove", "handleMouseMove">> \in listeners
  /\ LET h == handleMouseHover(Event("mousemove", p))
         s == handleMouseHoverStyle(rev, Event("mousemove", p))
     IN /\ cbLog' = h.calls
        /\ overReported' = Owed(h.calls, overReported)
        /\ lookupLog' = h.lookups \o s.lookups
        /\ hoverItems' = h.hover
        /\ hoverStyleItems' = s.hoverStyle
        /\ cursorLog' = s.cursorCalls
        /\ cursor' = IF s.cursorCalls = <<>> THEN cursor
                     ELSE s.cursorCalls[Len(s.cursorCalls)]
        /\ threw' = s.threw
        /\ fresh' = FALSE
        /\ canvasLog' = {}
  /\ prevLookup' = IF reconfigured THEN <<>> ELSE findByPosition(lib, p)
  /\ xformLog' = <<>>
  /\ libLog' = <<>>
  /\ layerLog' = <<>>
  /\ UNCHANGED <<fixed, devicePixelRatio, adapter, rendering, isDragging, gestures, listeners, mapView,
                 pluginPending, customLayer, destroyed, reconfigured, options>>

\* The gesture an event starts or ends; the map reports the start of a
\* gesture that is not under way and the end of one that is.
GestureOf(event) ==
  IF event \in {"dragstart", "dragend"} THEN "drag" ELSE "touch"

\* 'dragstart' and 'touchstart' go to handleDragStart, 'dragend' and
\* 'touchend' to handleDragEnd.
MapGesture(event, handler, dragging) ==
  /\ <<event, handler>> \in listeners
  /\ dragging # (GestureOf(event) \in gestures)
  /\ isDragging' = dragging
  /\ gestures' = IF dragging THEN gestures \cup {GestureOf(event)}
                 ELSE gestures \ {GestureOf(event)}
  /\ NoLogs
  /\ UNCHANGED <<fixed, overReported, devicePixelRatio, adapter, hovers, rendering, hostMap, destroyed,
                 reconfigured, options, prevLookup>>

MapDragStart == MapGesture("dragstart", "handleDragStart", TRUE)
MapTouchStart == MapGesture("touchstart", "handleDragStart", TRUE)
MapDragEnd == MapGesture("dragend", "handleDragEnd", FALSE)
MapTouchEnd == MapGesture("touchend", "handleDragEnd", FALSE)

\* The page moves to a screen of another pixel density, or the user changes
\* the browser zoom: window.devicePixelRatio changes.
DeviceRatioChange(ratio) ==
  /\ ratio # devicePixelRatio
  /\ devicePixelRatio' = ratio
  /\ NoLogs
  /\ UNCHANGED <<fixed, overReported, adapter, hovers, rendering, isDragging, gestures, hostMap,
                 destroyed, reconfigured, options, prevLookup>>

\* The user pans or zooms the map.
MapMove(view) ==
  /\ view # mapView
  /\ mapView' = view
  /\ NoLogs
  /\ UNCHANGED <<fixed, overReported, devicePixelRatio, adapter, hovers, rendering, isDragging, gestures, listeners,
                 cursor, pluginPending, customLayer, destroyed, reconfigured, options,
                 prevLookup>>

Views == [center : Centers, zoom : Zooms]

\* ---------------------------------------------------------- specifications

\* The adapter under every event its environment can produce.
Next ==
  \/ PluginCallback
  \/ Destroy
  \/ \E props \in PropsOf(rev) : Config(props)
  \/ \E props \in PropsOf(rev) : Render(props)
  \/ Refresh
  \/ LayerRender
  \/ \E i \in 1 .. MaxPending : RenderDone(i)
  \/ \E p \in Pixels : MapClick(p)
  \/ \E p \in Pixels : MapDoubleClick(p)
  \/ \E p \in Pixels : MapMouseMove(p)
  \/ MapDragStart
  \/ MapTouchStart
  \/ MapDragEnd
  \/ MapTouchEnd
  \/ \E view \in Views : MapMove(view)
  \/ \E ratio \in DeviceRatios : DeviceRatioChange(ratio)

Spec == Init /\ [][Next]_vars

\* Pointer events against what the renders left in the primitive.  The
\* application re-renders with and without new options and the user pans and
\* zooms; the primitive's draw is complete when render() returns, so that
\* `pending` stays empty and `previous` follows the renders: neither is read
\* by an event handler, and no event handler reads isDragging.
NextPointer ==
  \/ \E props \in PropsOf(rev) : RenderDrawn(props)
  \/ RefreshDrawn
  \/ \E p \in Pixels : MapClick(p)
  \/ \E p \in Pixels : MapDoubleClick(p)
  \/ \E p \in Pixels : MapMouseMove(p)
  \/ \E view \in Views : MapMove(view)

SpecPointer == Init /\ [][NextPointer]_vars

\* Teardown against the plugin callback, the map's events and its re-renders
\* of the layer.
NextLife ==
  \/ PluginCallback
  \/ Destroy
  \/ RefreshDrawn
  \/ LayerRenderDrawn
  \/ \E p \in Pixels : MapClick(p)
  \/ \E p \in Pixels : MapDoubleClick(p)
  \/ \E p \in Pixels : MapMouseMove(p)
  \/ MapDragStart
  \/ MapTouchStart
  \/ MapDragEnd
  \/ MapTouchEnd

SpecLife == Init /\ [][NextLife]_vars

\* A render is not issued while another awaits its draw.
InTurn == Len(pending') <= 1

\* Reconfiguration and rendering: the application configures and renders,
\* the map re-renders the layer, pans, zooms and reports drags, and the
\* primitive's draws complete when they complete.  Renders are issued in
\* turn; SpecAsync and SpecFlight have them overlap.
NextRender ==
  \/ PluginCallback
  \/ \E props \in PropsOf(rev) : Config(props)
  \/ \E props \in PropsOf(rev) : Render(props) /\ InTurn
  \/ Refresh /\ InTurn
  \/ LayerRender /\ InTurn
  \/ \E i \in 1 .. MaxPending : RenderDone(i)
  \/ MapDragStart
  \/ MapDragEnd
  \/ \E view \in Views : MapMove(view)

SpecRender == Init /\ [][NextRender]_vars

\* render(props) among pointer events: the application renders with options,
\* the map reports clicks and pointer moves, and the primitive's draws
\* complete when they complete.
NextAsync ==
  \/ \E props \in PropsOf(rev) : Render(props)
  \/ \E i \in 1 .. MaxPending : RenderDone(i)
  \/ \E p \in Pixels : MapClick(p)
  \/ \E p \in Pixels : MapMouseMove(p)

SpecAsync == Init /\ [][NextAsync]_vars

\* The captured pixel ratio against the window's: the adapter is constructed
\* in a window of any ratio, the ratio changes, and the application
\* configures and renders.
NextRatio ==
  \/ \E ratio \in DeviceRatios : DeviceRatioChange(ratio)
  \/ \E props \in PropsOf(rev) : Config(props)
  \/ \E props \in PropsOf(rev) : RenderDrawn(props)
  \/ RefreshDrawn

SpecRatio == Constructed(DeviceRatios) /\ [][NextRatio]_vars

\* Renders in flight: render() is called while earlier calls still await
\* their draws, the map pans, zooms and reports drags and touches, and the draws
\* complete in any order, at once or later.
NextFlight ==
  \/ Refresh
  \/ RefreshDrawn
  \/ \E i \in 1 .. MaxPending : RenderDone(i)
  \/ MapDragStart
  \/ MapTouchStart
  \/ MapDragEnd
  \/ MapTouchEnd
  \/ \E view \in Views : MapMove(view)

SpecFlight == Init /\ [][NextFlight]_vars

\* The dataset against pointer events: the application configures with and
\* without rendering, also while the user drags the map, and the map reports
\* clicks and pointer moves.
NextDataset ==
  \/ \E props \in PropsOf(rev) : Config(props)
  \/ \E props \in PropsOf(rev) : RenderDrawn(props)
  \/ MapDragStart
  \/ MapDragEnd
  \/ \E p \in Pixels : MapClick(p)
  \/ \E p \in Pixels : MapMouseMove(p)

SpecDataset == Init /\ [][NextDataset]_vars

\* Options that register no callback at all.
NoCallbackProps(r) == [data |-> Data1(r), width |-> 2, height |-> 1]

\* Pointer events between renders that register some callbacks, others or
\* none.
NextGuarded ==
  \/ \E props \in PropsOf(rev) \cup {NoCallbackProps(rev)} : RenderDrawn(props)
  \/ RefreshDrawn
  \/ \E p \in Pixels : MapClick(p)
  \/ \E p \in Pixels : MapDoubleClick(p)
  \/ \E p \in Pixels : MapMouseMove(p)

SpecGuarded == Init /\ [][NextGuarded]_vars

\* ------------------------------------------------------------ hover (C1, C2)

BothHover == IsFunction(onMouseOver) /\ IsFunction(onMouseOut)

MoveEvent(p) == Event("mousemove", p)

\* C1: with onMouseOver and onMouseOut both registered and no reconfiguration
\* since construction, every pointer move fires what the size-delta
\* classifier gives for its lookup result against the lookup result of the
\* move before it (empty before the first move): larger, exactly one
\* onMouseOver with the new set; smaller, exactly one onMouseOut with the new
\* set; same size and equal, nothing.
C1_HoverFollowsSizeDelta ==
  [][\A p \in Pixels :
       (MapMouseMove(p) /\ BothHover /\ ~reconfigured) =>
         LET new == findByPosition(lib, p)
             old == prevLookup
         IN /\ Len(new) > Len(old) =>
                 cbLog' = <<Call("onMouseOver", onMouseOver, MoveEvent(p), new)>>
            /\ Len(new) < Len(old) =>
                 cbLog' = <<Call("onMouseOut", onMouseOut, MoveEvent(p), new)>>
            /\ new = old => cbLog' = <<>>]_vars

\* The second half of the path empty -> {A} -> empty: a move off every item
\* after a move onto one has fired onMouseOut([]) and nothing else.
C1_LeftAllItems ==
  /\ BothHover
  /\ ~reconfigured
  /\ prevLookup = <<>>
  /\ \E p \in Pixels :
       cbLog = <<Call("onMouseOut", onMouseOut, MoveEvent(p), <<>>)>>

\* C2: with both hover callbacks registered, a pointer move whose lookup
\* result has the size of the stored hover set and other contents calls
\* onMouseOut and then onMouseOver, once each, both with the new set.
C2_OutThenOver ==
  [][\A p \in Pixels :
       (MapMouseMove(p) /\ BothHover) =>
         LET new == findByPosition(lib, p)
         IN (Len(new) = Len(hoverItems) /\ new # hoverItems) =>
              cbLog' = <<Call("onMouseOut", onMouseOut, MoveEvent(p), new),
                         Call("onMouseOver", onMouseOver, MoveEvent(p), new)>>]_vars

\* A move from one item straight onto another has fired both callbacks.
C2_ChangedItem ==
  /\ BothHover
  /\ Len(cbLog) = 2
  /\ cbLog[1].cb = "onMouseOut"
  /\ cbLog[2].cb = "onMouseOver"
  /\ cbLog[1].items = hoverItems
  /\ cbLog[2].items = hoverItems
  /\ hoverItems # <<>>

\* ------------------------------------------------------------------ click (C3)

\* C3: a map click with onClick registered makes one lookup, at the event
\* pixel; onClick is called once, with the event and the lookup result, when
\* the result is not empty, and is not called when it is empty.
C3_ClickLooksUpOnce ==
  [][\A p \in Pixels :
       (MapClick(p) /\ IsFunction(onClick)) =>
         LET clicked == findByPosition(lib, p)
         IN /\ lookupLog' = <<Lookup("handleClick", p)>>
            /\ cbLog' = IF clicked # <<>>
                        THEN <<Call("onClick", onClick, Event("click", p), clicked)>>
                        ELSE <<>>]_vars

\* A click on an item has called onClick once.
C3_ClickedItem ==
  \E p \in Pixels :
    /\ lookupLog = <<Lookup("handleClick", p)>>
    /\ Len(cbLog) = 1
    /\ cbLog[1].cb = "onClick"
    /\ cbLog[1].items = findByPosition(lib, p)
    /\ cbLog[1].items # <<>>

\* ----------------------------------------------------------------- cursor (C8)

AnyCallback ==
  \/ IsFunction(onClick)
  \/ IsFunction(onDoubleClick)
  \/ IsFunction(onMouseOver)
  \/ IsFunction(onMouseOut)

CurrentRevs == {"Marker", "Line", "Grid", "Text"}

\* C8: in Marker, Line, Grid and Text with a callback registered, a pointer
\* move sets the cursor to 'pointer' exactly when the stored cursor-hover set
\* is empty and the lookup result is not, resets it to the map's default
\* exactly when the stored set is not empty and the lookup result is, and
\* leaves the lookup result as the stored cursor-hover set.
C8_CursorFollowsLookups ==
  [][\A p \in Pixels :
       (MapMouseMove(p) /\ rev \in CurrentRevs /\ AnyCallback) =>
         LET new == findByPosition(lib, p)
         IN /\ ("pointer" \in Range(cursorLog'))
                 <=> (hoverStyleItems = <<>> /\ new # <<>>)
            /\ ("default" \in Range(cursorLog'))
                 <=> (hoverStyleItems # <<>> /\ new = <<>>)
            /\ Len(cursorLog') <= 1
            /\ hoverStyleItems' = new]_vars

\* -------------------------------------------------------- teardown (C4, C5, C6)

\* C4: once destroy() has returned, every (event, handler) pair the
\* constructor registered on the map is unregistered: no map event reaches
\* the adapter, which looks nothing up and calls no user callback.
C4_DestroyUnregistersEverything ==
  destroyed => (listeners = {} /\ lookupLog = <<>> /\ cbLog = <<>>)

\* C5: once destroy() has been called the custom layer is not attached to the
\* map, whether the plugin callback ran before destroy() or runs after it.
C5_NeverAttachedAfterDestroy ==
  destroyed => customLayer # "attached"

\* C6: destroy() while customLayer is still undefined throws nothing, makes
\* no call on the custom layer and unregisters the map listeners.
C6_EarlyDestroyIsClean ==
  [][(Destroy /\ customLayer = "undefined") =>
       (~threw' /\ layerLog' = <<>> /\ listeners' = {})]_vars

\* ------------------------------------------------------- reconfiguration (C7)

\* Where a revision keeps the configured size: Marker in the canvas backing
\* store, scaled by dpr; the earlier Marker in the canvas backing store; Line,
\* Grid and Text in this.width and this.height.
SizeIs(sz, w, h) ==
  CASE rev = "Marker" -> sz.canvasW = w * dpr /\ sz.canvasH = h * dpr
    [] rev = "MarkerOld" -> sz.canvasW = w /\ sz.canvasH = h
    [] OTHER -> sz.width = w /\ sz.height = h

\* C7: config(props), and render(props) with props given, leave data, width,
\* height and every callback at the value props supplies, or at the default
\* (empty dataset, 0, no callback) where props omits it, whatever was held
\* before; the map reference stays what it was.
C7_ConfigReplaces ==
  [][\A props \in PropsOf(rev) :
       (Config(props) \/ Render(props)) =>
         /\ data' = Configured(props, "data", <<>>)
         /\ SizeIs(size', Configured(props, "width", 0), Configured(props, "height", 0))
         /\ onClick' = Configured(props, "onClick", Undefined)
         /\ onMouseOver' = Configured(props, "onMouseOver", Undefined)
         /\ onMouseOut' = Configured(props, "onMouseOut", Undefined)
         /\ Kind(rev) = "Marker" =>
              onDoubleClick' = Configured(props, "onDoubleClick", Undefined)
         /\ map' = map]_vars

\* config() with neither data nor hover callbacks has emptied the dataset and
\* dropped the callbacks of an adapter whose earlier dataset, still in the
\* primitive, was not empty.
C7_OmittedFieldsReset ==
  /\ reconfigured
  /\ lib.data # <<>>
  /\ data = <<>>
  /\ onClick = "g"
  /\ onMouseOver = Undefined
  /\ onMouseOut = Undefined
  /\ SizeIs(size, 1, 0)

\* --------------------------------------------------- render transforms (C9, C10)

HasBoth(item) == Has(item, "location") /\ Has(item, "position")
HasOnlyLocation(item) == Has(item, "location") /\ ~Has(item, "position")

TransformsOf(i) == {k \in DOMAIN xformLog : xformLog[k].item = i}

Configures(log) == \E k \in DOMAIN log : log[k].call = "config"

Rendered == Kind(rev) \in {"Marker", "Text"} /\ Configures(libLog)

\* C9: when Marker or Text has just rendered, an item of the dataset with
\* both location and position reached the primitive with its own position,
\* and coordinateTransformation was not called for it.
C9_PositionWins ==
  Rendered =>
    \A i \in DOMAIN data :
      HasBoth(data[i]) =>
        /\ i \in DOMAIN lib.data
        /\ lib.data[i].position = data[i].position
        /\ TransformsOf(i) = {}

\* A render has handed over an item whose own position is not where its
\* location projects to.
C9_RenderedItemWithBoth ==
  /\ Rendered
  /\ \E i \in DOMAIN data :
       /\ HasBoth(data[i])
       /\ lib.data[i].position = data[i].position
       /\ coordinateTransformation(mapView, data[i].location) # data[i].position

\* C10: when Marker or Text has just rendered, coordinateTransformation was
\* called exactly once for every item with only a location, with that
\* location, and its result is the position the primitive got; the list the
\* primitive got has the dataset's length and order.
C10_LocationTransformedOnce ==
  Rendered =>
    /\ Len(lib.data) = Len(data)
    /\ \A i \in DOMAIN data :
         /\ lib.data[i].id = data[i].id
         /\ HasOnlyLocation(data[i]) =>
              /\ Cardinality(TransformsOf(i)) = 1
              /\ \A k \in TransformsOf(i) : xformLog[k].coordinates = data[i].location
              /\ lib.data[i].position =
                   coordinateTransformation(mapView, data[i].location)

\* A render has projected the location-only item of a two-item dataset.
C10_RenderedLocationOnly ==
  /\ Rendered
  /\ Len(data) = 2
  /\ \E i \in DOMAIN data :
       /\ HasOnlyLocation(data[i])
       /\ Cardinality(TransformsOf(i)) = 1
       /\ lib.data[i].position = coordinateTransformation(mapView, data[i].location)

\* ------------------------------------------------------- stored dataset (C11)

GeoOnly(item) == ~Has(item, "position")

\* Item i of dataset d is in primitive l as view projects its coordinates.
ProjectedWith(view, l, d, i) ==
  CASE Kind(rev) \in {"Marker", "Text"} ->
         l.data[i].position = coordinateTransformation(view, d[i].location)
    [] Kind(rev) = "Grid" ->
         /\ l.data[i].origin = coordinateTransformation(view, d[i].topLeft)
         /\ ~Has(d[i], "origin")
    [] Kind(rev) = "Line" ->
         l.snap[i].path = [k \in 1 .. Len(d[i].path) |->
                             coordinateTransformation(view, d[i].path[k])]

\* C11: a render without options, started by the application or by the map,
\* and the completion of a draw leave the stored dataset as it is, so that an
\* item supplied without a pixel position has none afterwards; and every
\* render that configures the primitive projects such an item with the map's
\* centre and zoom of that render.
C11_RenderKeepsDataset ==
  [][/\ (Refresh \/ LayerRender \/ \E n \in 1 .. MaxPending : RenderDone(n)) =>
          data' = data
     /\ Configures(libLog') =>
          \A i \in DOMAIN data' :
            GeoOnly(data'[i]) => ProjectedWith(mapView', lib', data', i)]_vars

\* A render under another centre or zoom than the last completed one has
\* projected anew an item that still has no pixel position.
C11_ProjectedAgain ==
  /\ IsAsync(rev)
  /\ Configures(libLog)
  /\ previous.zoom # UndefinedSize
  /\ <<previous.center, previous.zoom>> # <<mapView.center, mapView.zoom>>
  /\ \E i \in DOMAIN data :
       /\ GeoOnly(data[i])
       /\ ProjectedWith(mapView, lib, data, i)
       /\ ~ProjectedWith([center |-> previous.center, zoom |-> previous.zoom],
                         lib, data, i)

\* -------------------------------------------------------- dragging flag (C12)

\* C12: in Line, Grid and Text, while a drag or a touch the map reported
\* started has not ended, no render entry configures the primitive or has it
\* draw, whatever the order of dragstart, touchstart, dragend and touchend.
C12_NoDrawDuringGesture ==
  (IsAsync(rev) /\ gestures # {}) => ~Configures(libLog)

\* --------------------------------------------------------- daemon canvas (C13)

Blits(log) == \E k \in DOMAIN log : log[k].call = "drawImage"

\* C13: in Line, Grid and Text a render that draws hands the daemon canvas
\* to the primitive exactly when the map's zoom at its start is the memorised
\* zoom, shifting the visible canvas first, and otherwise hands over the
\* visible canvas and shifts nothing; the daemon canvas is copied onto the
\* visible one when the draw of such a render completes, at no other step,
\* and nothing is copied when the draw of a render on the visible canvas
\* completes.
C13_DaemonIffSameZoom ==
  [][IsAsync(rev) =>
       /\ Configures(libLog') =>
            libLog' = IF mapView.zoom = previous.zoom
                      THEN <<LibCall("moveCanvas", "visible"),
                             LibCall("config", "daemon"),
                             LibCall("render", "daemon")>>
                      ELSE <<LibCall("config", "visible"),
                             LibCall("render", "visible")>>
       /\ \A n \in 1 .. MaxPending :
            RenderDone(n) =>
              libLog' = IF pending[n].daemon
                        THEN <<LibCall("drawImage", "visible")>> ELSE <<>>
       /\ Blits(libLog') => \E n \in 1 .. MaxPending : RenderDone(n)]_vars

\* The draw of a render on the daemon canvas has completed and the daemon
\* canvas has been copied onto the visible one.
C13_DaemonCopied ==
  /\ IsAsync(rev)
  /\ libLog = <<LibCall("drawImage", "visible")>>
  /\ previous = Memorised
  /\ size.canvasW = size.daemonW

\* ---------------------------------------------------------------------- C14

\* The revisions whose config() sizes the canvas backing store itself.
SizesCanvas(r) == Kind(r) = "Marker"

\* C14: in every revision that sizes the canvas itself, config() assigns the
\* backing-store width (height) only when that changes it from what the
\* previous configuration left, so that configuring twice with the same width
\* and height assigns it at most once.
C14_AssignsOnlyOnChange ==
  [][\A props \in PropsOf(rev) :
       (Config(props) /\ SizesCanvas(rev)) =>
         /\ "width" \in canvasLog' => size'.canvasW # size.canvasW
         /\ "height" \in canvasLog' => size'.canvasH # size.canvasH]_vars

\* ---------------------------------------------------------------------- C15

\* The canvas has backing store (w * ratio) x (h * ratio) and CSS size w x h.
CanvasIs(sz, ratio, w, h) ==
  /\ sz.canvasW = w * ratio
  /\ sz.canvasH = h * ratio
  /\ sz.styleW = w
  /\ sz.styleH = h

\* C15: after config with width w and height h the canvas of a Marker, Line,
\* Grid or Text adapter has backing-store size (w * dpr) x (h * dpr) and CSS
\* size w px x h px.
C15_CanvasSizedByConfig ==
  [][\A props \in PropsOf(rev) :
       (Config(props) /\ rev \in CurrentRevs) =>
         CanvasIs(size', dpr, Configured(props, "width", 0),
                  Configured(props, "height", 0))]_vars

\* ---------------------------------------------------------------------- C16

\* C16: render(props) reconfigures and renders atomically: between the moment
\* the new configuration is stored and the moment its draw has completed and
\* is visible, no click, pointer move or other render of the adapter runs.
C16_RenderWithOptionsAtomic ==
  [][pending # <<>> => \E i \in 1 .. MaxPending : RenderDone(i)]_vars

\* ---------------------------------------------------------------------- C17

\* C17: a render without options, whether render() called by the application
\* or internalRender called by the map, leaves the dataset, the callbacks,
\* the width and height and the hover sets as they were.
C17_RenderWithoutOptionsKeeps ==
  [][(RefreshDrawn \/ LayerRenderDrawn) =>
       /\ data' = data
       /\ <<onClick, onDoubleClick, onMouseOut, onMouseOver>>'
            = <<onClick, onDoubleClick, onMouseOut, onMouseOver>>
       /\ <<hoverItems, hoverStyleItems>>' = <<hoverItems, hoverStyleItems>>
       /\ <<size.width, size.height, size.styleW, size.styleH>>'
            = <<size.width, size.height, size.styleW, size.styleH>>
       /\ ~IsAsync(rev) =>
            <<size.canvasW, size.canvasH>>' = <<size.canvasW, size.canvasH>>]_vars

\* A render without options has just drawn a non-empty dataset while the
\* pointer was over an item.
C17_RenderedWhileHovering ==
  /\ Configures(libLog)
  /\ data # <<>>
  /\ hoverItems # <<>>
  /\ hoverStyleItems # <<>>

\* ---------------------------------------------------------------------- C18

\* C18: config(props) calls neither the primitive's config nor its render:
\* after it the primitive's dataset and the drawing on the canvas are those
\* the last render left.
C18_ConfigDrawsNothing ==
  [][\A props \in PropsOf(rev) :
       Config(props) =>
         /\ libLog' = <<>>
         /\ xformLog' = <<>>
         /\ lib' = lib
         /\ frame' = frame]_vars

\* ---------------------------------------------------------------------- C19

HoverLookups(log) == {k \in DOMAIN log : log[k].by = "handleMouseHover"}

\* C19: with neither onMouseOver nor onMouseOut registered a pointer move
\* makes no hover lookup and leaves the stored hover set as it was; with at
\* least one of them registered it makes one and the stored hover set is the
\* lookup's result afterwards, whether or not a callback was called.
C19_HoverLookupIffRegistered ==
  [][\A p \in Pixels :
       MapMouseMove(p) =>
         IF IsFunction(onMouseOver) \/ IsFunction(onMouseOut)
         THEN /\ Cardinality(HoverLookups(lookupLog')) = 1
              /\ lookupLog'[1] = Lookup("handleMouseHover", p)
              /\ hoverItems' = findByPosition(lib, p)
         ELSE /\ HoverLookups(lookupLog') = {}
              /\ hoverItems' = hoverItems]_vars

\* A pointer move over an item with only onMouseOver registered called no
\* callback and stored the item.
C19_StoredWithoutCallback ==
  /\ IsFunction(onMouseOver)
  /\ ~IsFunction(onMouseOut)
  /\ HoverLookups(lookupLog) # {}
  /\ cbLog = <<>>
  /\ hoverItems # <<>>

\* ---------------------------------------------------------------------- C20

\* C20: in each of Marker, Line, Grid and Text, when a double-click callback
\* was supplied and the map reports a double-click at a pixel where the
\* lookup finds items, that callback is called once with the event and those
\* items.
C20_DoubleClickCallsBack ==
  [][\A p \in Pixels :
       (/\ MapDoubleClick(p)
        /\ rev \in CurrentRevs
        /\ ~destroyed
        /\ Has(options, "onDoubleClick")
        /\ findByPosition(lib, p) # <<>>) =>
         cbLog' = <<Call("onDoubleClick", options.onDoubleClick,
                         Event("dblclick", p), findByPosition(lib, p))>>]_vars

\* ---------------------------------------------------------------------- C21

\* Where in the dataset d the entry is that the item was made from.
EntryOf(d, item) == CHOOSE i \in DOMAIN d : d[i].id = item.id

Among(item, list) == \E j \in DOMAIN list : list[j].id = item.id

Calls(log, name) == {k \in DOMAIN log : log[k].cb = name}

\* C22: with onMouseOver registered, every pointer move whose lookup result
\* contains an item that was not in the previous hover set calls onMouseOver.
C22_OverOnEnteredItem ==
  [][\A p \in Pixels :
       (/\ MapMouseMove(p)
        /\ IsFunction(onMouseOver)
        /\ \E i \in DOMAIN findByPosition(lib, p) :
              ~Among(findByPosition(lib, p)[i], hoverItems)) =>
         Calls(cbLog', "onMouseOver") # {}]_vars

\* C23: with onMouseOut registered, every pointer move whose lookup result
\* lacks an item of the previous hover set calls onMouseOut.
C23_OutOnLeftItem ==
  [][\A p \in Pixels :
       (/\ MapMouseMove(p)
        /\ IsFunction(onMouseOut)
        /\ \E i \in DOMAIN hoverItems :
              ~Among(hoverItems[i], findByPosition(lib, p))) =>
         Calls(cbLog', "onMouseOut") # {}]_vars

\* ---------------------------------------------------------------------- C24

Registered(name) ==
  CASE name = "onClick" -> onClick
    [] name = "onDoubleClick" -> onDoubleClick
    [] name = "onMouseOver" -> onMouseOver
    [] name = "onMouseOut" -> onMouseOut

C25_LayerOnlyFromPluginCallback ==
  [][/\ fresh => (lib = NoLib /\ libLog = <<>> /\ frame = BlankFrame)
     /\ pluginPending => customLayer = "undefined"
     /\ LayerRenderDrawn => ~pluginPending
     /\ customLayer' = "attached" =>
          (customLayer = "attached" \/ (PluginCallback /\ pluginPending))]_vars

\* The application has rendered while the plugin callback had not run yet:
\* the primitive has drawn and there is still no custom layer.
C25_RenderedBeforeLayer ==
  /\ pluginPending
  /\ customLayer = "undefined"
  /\ Configures(libLog)
  /\ lib.data # <<>>

\* ---------------------------------------------------------------------- C26

\* C26: in the revisions that have this.dpr (all but the earlier Marker),
\* this.dpr is what the constructor read from the window, 1 when the window's
\* devicePixelRatio is undefined or 0, and no later step assigns it: every
\* config() of Marker leaves the canvas backing store at the requested size
\* times this.dpr, every render of Marker leaves the context scaled by
\* this.dpr, and every render of Line, Grid and Text hands this.dpr to the
\* primitive, whatever the window's devicePixelRatio is by then.
C26_RatioReadOnce ==
  [][rev # "MarkerOld" =>
       /\ fresh => dpr = IF devicePixelRatio \in {UndefinedSize, 0} THEN 1
                         ELSE devicePixelRatio
       /\ dpr' = dpr
       /\ rev = "Marker" =>
            /\ size'.canvasW = Configured(options', "width", 0) * dpr
            /\ size'.canvasH = Configured(options', "height", 0) * dpr
       /\ (rev = "Marker" /\ Configures(libLog')) => size'.scale = dpr
       /\ (IsAsync(rev) /\ Configures(libLog')) => lib'.dpr = dpr]_vars

\* An adapter constructed in a window without devicePixelRatio has rendered
\* after the window's ratio became 2.
C26_RenderedAfterRatioChange ==
  /\ IsAsync(rev)
  /\ dpr = 1
  /\ devicePixelRatio = 2
  /\ Configures(libLog)
  /\ lib.dpr = 1
  /\ lib.data # <<>>

\* ---------------------------------------------------------------------- C27

\* A render has completed and nothing it read has changed since: no draw is
\* awaited, the primitive holds what the current dataset, sizes and map view
\* give, the visible canvas shows the primitive's drawing, and the memorised
\* centre and zoom are the map's.
Settled ==
  /\ lib # NoLib
  /\ lib = Configure(rev, mapView, data, size, dpr)
  /\ frame = Drawn(lib)
  /\ IsAsync(rev) => previous = Memorised

\* C27: a render (render(), the layer's render, or render(props) with the
\* options last given) invoked when a render has completed and nothing has
\* changed since hands the primitive what it already holds and leaves the
\* visible canvas as it is; in Line, Grid and Text it draws on the daemon
\* canvas, the pan it shifts the visible canvas by is zero, and the copy of
\* the daemon canvas at its completion leaves the visible canvas and the
\* memorised centre and zoom as they are.
C27_RenderIdempotent ==
  [][/\ (Settled /\ pending = <<>> /\ (Refresh \/ LayerRender \/ Render(options))) =>
          /\ lib' = lib
          /\ frame' = frame
          /\ (IsAsync(rev) /\ Configures(libLog')) =>
               /\ libLog' = <<LibCall("moveCanvas", "visible"),
                              LibCall("config", "daemon"), LibCall("render", "daemon")>>
               /\ Delta = <<0, 0>>
               /\ Len(pending') = 1
               /\ pending'[1].daemon
     /\ (Settled /\ RenderDone(1)) =>
          /\ frame' = frame
          /\ previous' = previous
          /\ Settled']_vars

\* The second of two renders in Line, Grid or Text has completed: the daemon
\* canvas was copied to a visible canvas that already showed the same.
C27_SecondRenderCompleted ==
  /\ IsAsync(rev)
  /\ Settled
  /\ libLog = <<LibCall("drawImage", "visible")>>
  /\ lib.data # <<>>
  /\ frame.snap # <<>>
  /\ frame.shift = <<0, 0>>

\* ---------------------------------------------------------------------- C28

\* C28: in Line, Grid and Text a dragstart or touchstart leaves the renders
\* that await their draw awaiting it; the completion of an awaited draw is
\* possible whether or not the map is being dragged, and while it is being
\* dragged it still copies the daemon canvas to the visible one (if the draw
\* was on the daemon canvas), shows the drawing and memorises the map's centre
\* and zoom; a render entered while the map is being dragged starts nothing.
C28_DragDoesNotCancel ==
  [][IsAsync(rev) =>
       /\ (MapDragStart \/ MapTouchStart) => pending' = pending
       /\ pending # <<>> => ENABLED RenderDone(1)
       /\ \A i \in 1 .. MaxPending :
            (isDragging /\ RenderDone(i)) =>
              /\ previous' = Memorised
              /\ frame' = pending[i].drawing
              /\ pending[i].daemon =>
                   /\ libLog' = <<LibCall("drawImage", "visible")>>
                   /\ size'.canvasW = size.daemonW
                   /\ size'.canvasH = size.daemonH
       /\ (isDragging /\ (Refresh \/ RefreshDrawn)) =>
            /\ lib' = lib
            /\ pending' = pending
            /\ libLog' = <<>>]_vars

\* A render on the daemon canvas that was awaiting its draw when the gesture
\* started has completed during the gesture.
C28_CompletedWhileDragging ==
  /\ IsAsync(rev)
  /\ isDragging
  /\ gestures # {}
  /\ libLog = <<LibCall("drawImage", "visible")>>
  /\ previous = Memorised
  /\ frame.snap # <<>>

\* ---------------------------------------------------------------------- C29

\* C29: in Line, Grid and Text, when an awaited draw completes, the memorised
\* centre and zoom are those the map had when that render started (the
\* nextCenter and nextZoom it read), whatever the map's centre and zoom are by
\* then.
C29_MemorisesStartView ==
  [][IsAsync(rev) =>
       \A i \in 1 .. MaxPending :
         RenderDone(i) => previous' = pending[i].next]_vars

\* ---------------------------------------------------------------------- C30

\* C30: in Line, Grid and Text, when internalRender was invoked again while
\* an earlier invocation awaited its draw, the visible canvas holds the frame
\* of the later invocation once both have completed.  Stated for the earlier
\* invocation completing last after having drawn on the daemon canvas: if,
\* since it started, a render at another zoom has completed (the memorised
\* zoom is no longer the one it started at) and the visible canvas shows what
\* the primitive was last configured with, its completion leaves the visible
\* canvas as it is.  Grid and Text, where internalRender itself projects the
\* items before it awaits, are the revisions looked at.
C30_LaterFrameStays ==
  [][(Kind(rev) \in {"Grid", "Text"}) =>
       \A i \in 1 .. MaxPending :
         (/\ RenderDone(i)
          /\ Len(pending) = 1
          /\ pending[i].daemon
          /\ pending[i].next.zoom # previous.zoom
          /\ frame = Drawn(lib)) => frame' = Drawn(lib)]_vars

\* ---------------------------------------------------------------------- C35

\* C35: in Marker the scale of the 2D context is 1 (a canvas whose width or
\* height was just assigned) or this.dpr at every step, and it is this.dpr
\* after every internalRender, however many renders came before and whether
\* or not config() assigned the canvas in between: the render resets the
\* canvas and scales once.
C35_ScaledOncePerRender ==
  [][rev = "Marker" =>
       /\ size'.scale \in {1, dpr}
       /\ Configures(libLog') => size'.scale = dpr
       /\ (Configures(libLog') /\ size.scale = dpr) => size'.scale = size.scale]_vars

\* Marker on a window of ratio 2 has rendered through render(props) whose
\* config() assigned no canvas dimension, so that only the render's own reset
\* of the canvas stands between the context and the scale it had before.
C35_RenderedOnScaledContext ==
  /\ rev = "Marker"
  /\ dpr = 2
  /\ reconfigured
  /\ Configures(libLog)
  /\ canvasLog = {}
  /\ size.scale = 2
  /\ size.canvasW = Configured(options, "width", 0) * 2

\* ---------------------------------------------------------------------- C37

Moves(log) == \E k \in DOMAIN log : log[k].call = "moveCanvas"

\* C37: in Line, Grid and Text a render that finds the zoom it memorised (a
\* pan render) shifts what the visible canvas shows by minus the pan times
\* this.dpr, in backing-store pixels, the pan being the container position of
\* the map's centre minus that of the memorised centre; the shifted picture
\* stays until the awaited draw completes.
C37_PanShiftsByRatio ==
  [][(/\ IsAsync(rev)
      /\ Moves(libLog')
      /\ Len(pending') > Len(pending)
      /\ frame.snap # <<>>) =>
       frame'.shift = <<frame.shift[1] - Delta[1] * dpr,
                        frame.shift[2] - Delta[2] * dpr>>]_vars

\* ---------------------------------------------------------------------- C36

\* C36: in Line, Grid and Text, while no centre and zoom are memorised, a
\* render that draws hands the visible canvas to the primitive, calls neither
\* moveCanvas nor drawImage, and a draw that completes copies nothing;
\* moveCanvas is never called without a memorised centre to project; and the
\* memorised centre and zoom change only when a draw completes, at once or
\* later, never in a render the dragging flag suppressed.
C36_FirstRenderOnVisible ==
  [][IsAsync(rev) =>
       /\ (previous = NoPrevious /\ Configures(libLog')) =>
            /\ libLog' = <<LibCall("config", "visible"),
                           LibCall("render", "visible")>>
            /\ frame' = IF Len(pending') > Len(pending) THEN frame
                        ELSE Drawn(lib')
       /\ previous = NoPrevious =>
            /\ \A k \in DOMAIN pending' : ~pending'[k].daemon
            /\ ~Blits(libLog')
       /\ Moves(libLog') => previous.center # <<>>
       /\ previous' # previous =>
            /\ previous' = Memorised
            /\ \/ \E n \in 1 .. MaxPending : RenderDone(n)
               \/ Configures(libLog') /\ Len(pending') = Len(pending)
       /\ (isDragging /\ Len(pending') >= Len(pending)) =>
            /\ previous' = previous
            /\ ~Configures(libLog')]_vars

\* The first render after construction awaits its draw on the visible
\* canvas, nothing memorised yet.
C36_FirstRenderAwaited ==
  /\ IsAsync(rev)
  /\ previous = NoPrevious
  /\ Len(pending) = 1
  /\ ~pending[1].daemon
  /\ libLog = <<LibCall("config", "visible"), LibCall("render", "visible")>>
  /\ lib.data # <<>>

\* ---------------------------------------------------------------------- C31

\* C31: every item passed to a click or hover callback is what a render
\* makes, under some view of the map, of an entry of the dataset the adapter
\* holds when the event arrives.
C31_CallbackItemsFromDataset ==
  [][\A k \in DOMAIN cbLog' : \A j \in DOMAIN cbLog'[k].items :
       \E i \in DOMAIN data : \E view \in Views :
         cbLog'[k].items[j] = RenderItem(rev, view, i, data[i]).out]_vars

\* ---------------------------------------------------------------------- C32

\* C32: when onMouseOver has been called with a non-empty list, no
\* onMouseOut has been called since, and onMouseOver and onMouseOut have been
\* registered and the same all along, whatever config(props) or render(props)
\* came in between, a pointer move whose lookup finds nothing calls
\* onMouseOut.
C32_OutFollowsOver ==
  [][\A p \in Pixels :
       (/\ MapMouseMove(p)
        /\ overReported
        /\ findByPosition(lib, p) = <<>>) =>
         Calls(cbLog', "onMouseOut") # {}]_vars

\* ---------------------------------------------------------------------- C34

\* C34: a pointer move whose position lookup finds no item leaves the map's
\* cursor other than 'pointer', and no step but a pointer move over an item
\* makes it 'pointer', whatever config(props) and render(props) calls come
\* between the pointer moves.
C34_NoPointerOffItems ==
  [][/\ \A p \in Pixels :
          (/\ MapMouseMove(p)
           /\ lookupLog' # <<>>
           /\ findByPosition(lib, p) = <<>>) => cursor' # "pointer"
     /\ (cursor' = "pointer" /\ cursor # "pointer") =>
          \E p \in Pixels : MapMouseMove(p) /\ findByPosition(lib, p) # <<>>]_vars

\* ---------------------------------------------------------------------- C33

\* The dataset entries of a lookup result, in its order.
Entries(items) == [i \in DOMAIN items |-> items[i].id]

\* C33: with the dataset as the constructor was given it, a pointer move
\* whose lookup finds the same dataset entries as the pointer move before it
\* calls neither onMouseOver nor onMouseOut, whatever pans, zooms and renders
\* came between the two.
C33_SameEntriesNoCallback ==
  [][\A p \in Pixels :
       (/\ MapMouseMove(p)
        /\ ~reconfigured
        /\ Entries(findByPosition(lib, p)) = Entries(prevLookup)) =>
         cbLog' = <<>>]_vars

====
